---- MODULE Spec2Model ----
(***************************************************************************)
(* Dispatch-and-motion simulation of the logistics agent: DriverAgent      *)
(* motion, Package status, the EnvironmentSimulator tick and the           *)
(* DispatcherAgent tick.                                                   *)
(*                                                                         *)
(* Geometry.  Locations lie on one meridian (same lon), so that the        *)
(* haversine distance of location.py is exactly R * |dlat|; a location is  *)
(* the integer number of quarter-metres from a reference point and the     *)
(* distance of two locations is the absolute difference.  The planar       *)
(* interpolation of DriverAgent.tick is then exact: lat + (t - lat) * f    *)
(* with f = step / dist moves the driver by exactly step toward t.         *)
(***************************************************************************)
EXTENDS Integers, Sequences, FiniteSets, TLC

VARIABLES drivers,    \* EnvironmentSimulator.drivers: sequence of DriverAgent
          packages,   \* EnvironmentSimulator.packages: sequence of Package
          alive,      \* the simulator loop has not been ended by an exception
          lastOp,     \* history: the operation that produced this state and its inputs
          pre,        \* history: drivers and packages before that operation
          log,        \* history: the pairings made by the last dispatch tick, in order
          runs,       \* history: per driver, motion ticks and arrivals since assign_route
          faults,     \* the number of faults that may still be injected
          viz,        \* MapVisualizer: time since last_update (and since the last regeneration)
          out,        \* the last call of a tool function: its arguments and what it returned
          snap,       \* a snapshot() result some reader still holds
          dhist,      \* history: whether the last dispatch tick raised, and the one before a tick just made
          sched       \* the event loop: the running task and the position of each tick body

vars == <<drivers, packages, alive, lastOp, pre, log, runs, faults, viz, out, snap, dhist, sched>>

(***************************************************************************)
(* Bounds of the model.                                                    *)
(***************************************************************************)
NumDrivers == 2
MaxPackages == 3
MaxRouteLen == 2
MaxFaults == 1
MaxPoints == 3
MaxVehicles == 2

(***************************************************************************)
(* Program constants, in model units (quarter-metres, seconds).            *)
(***************************************************************************)
TickSeconds == 1
\* The arrival threshold `dist < 1.0` (metres), in quarter-metres.
ArrivalThreshold == 4
\* MapVisualizer.update_interval (2.0 s) and the sleep of print_status.
UpdateInterval == 2
ReportSleep == 5
\* RouteOptimizer.solve uses OR-Tools up to this number of nodes.
OrtoolsMaxNodes == 200

\* Values of settings.DRIVER_SPEED_MPS (an environment setting), in units per
\* second: 0.5 m/s, which shows every branch of the motion step on short
\* routes.
DriverSpeeds == {2}
\* The speeds a DriverAgent is driven at on its own: 0.5 m/s and 1.5 m/s,
\* the second so that a step can cover a distance above the threshold.
HarnessSpeeds == {2, 6}

\* Where drivers start, and the orders (pickup, dropoff) packages are made of.
DriverPlaces == {0, 2}
Orders == {<<0, 7>>, <<4, 2>>}
Places == {0, 2, 4, 7}

\* What the route service answers to one request of get_route.  The call
\* raises inside the try block when the service is unreachable or times out
\* (requests.get), answers a non-2xx status (raise_for_status), sends a body
\* that is not JSON (r.json) or an empty "routes" list (the index [0]).  A 2xx
\* JSON body can also lack "routes", hold a route without "duration" and
\* "distance", or hold a route with only one of them.  Durations are ms.
RaisingKinds == {"unreachable", "timeout", "http_error", "not_json", "empty_routes"}
BodyKinds == {"no_routes", "no_fields", "no_duration", "ok"}
OsrmResponses ==
    {[kind |-> k, duration |-> 0, distance |-> 0] : k \in RaisingKinds \cup {"no_routes", "no_fields"}}
    \cup {[kind |-> "no_duration", duration |-> 0, distance |-> 40],
          [kind |-> "ok", duration |-> 900, distance |-> 40]}

\* The answers a dispatch tick is run against: its route lookups discard
\* the result, so the tick tells a failed call from a served one at most.
TickResponses == {r \in OsrmResponses : r.kind \in {"unreachable", "ok"}}

None == "none"
DriverId(i) == IF i = 1 THEN "d1" ELSE IF i = 2 THEN "d2" ELSE IF i = 3 THEN "d3" ELSE "d4"
DriverIds == {DriverId(i) : i \in 1..NumDrivers}

Abs(x) == IF x < 0 THEN -x ELSE x
Min(a, b) == IF a <= b THEN a ELSE b

(***************************************************************************)
(* Location.haversine_distance_m, on a meridian.                           *)
(***************************************************************************)
haversine_distance_m(a, b) == Abs(b - a)

(***************************************************************************)
(* Package                                                                 *)
(***************************************************************************)
NewPackage(pickup, dropoff) ==
    [pickup |-> pickup, dropoff |-> dropoff, assigned_to |-> None, status |-> "pending"]

MutMarkAssignedInTransit(p, driver_id) ==
    [p EXCEPT !.assigned_to = driver_id, !.status = "in_transit"]

mark_assigned(p, driver_id) == [p EXCEPT !.assigned_to = driver_id, !.status = "assigned"]

mark_in_transit(p) == [p EXCEPT !.status = "in_transit"]

mark_delivered(p) == [p EXCEPT !.status = "delivered"]

(***************************************************************************)
(* DriverAgent.  route = <<>> stands for both None and the empty list,     *)
(* which the code never tells apart (it only tests `not self._route`).     *)
(* pkgs holds references to packages: indices into Simulator.packages.     *)
(***************************************************************************)
NewDriverAgent(id, start_location, speed) ==
    [id |-> id, location |-> start_location, status |-> "idle", speed_mps |-> speed,
     cursor |-> 0, route |-> <<>>, pkgs |-> <<>>]

\* The code's cursor is 0-based: route[cursor] is the (cursor+1)-th waypoint.
HasWaypoint(d) == d.route # <<>> /\ d.cursor < Len(d.route)

Arrives(d, dt) ==
    LET target == d.route[d.cursor + 1]
        dist == haversine_distance_m(d.location, target)
        step == d.speed_mps * dt
    IN  step >= dist \/ dist < ArrivalThreshold

MutTickNeverIdle(d, dt) ==
    IF ~HasWaypoint(d)
    THEN d
    ELSE LET target == d.route[d.cursor + 1]
             dist == haversine_distance_m(d.location, target)
             step == d.speed_mps * dt
         IN  IF step >= dist \/ dist < ArrivalThreshold
             THEN [d EXCEPT !.location = target, !.cursor = d.cursor + 1]
             ELSE [d EXCEPT !.location =
                      IF target > d.location THEN d.location + step ELSE d.location - step]

MutTickClearsRouteAtEnd(d, dt) ==
    IF ~HasWaypoint(d)
    THEN IF d.status # "idle" THEN [d EXCEPT !.status = "idle", !.route = <<>>, !.pkgs = <<>>] ELSE d
    ELSE LET target == d.route[d.cursor + 1]
             dist == haversine_distance_m(d.location, target)
             step == d.speed_mps * dt
         IN  IF step >= dist \/ dist < ArrivalThreshold
             THEN [d EXCEPT !.location = target, !.cursor = d.cursor + 1]
             ELSE [d EXCEPT !.location =
                      IF target > d.location THEN d.location + step ELSE d.location - step]

MutTickNoThreshold(d, dt) ==
    IF ~HasWaypoint(d)
    THEN IF d.status # "idle" THEN [d EXCEPT !.status = "idle"] ELSE d
    ELSE LET target == d.route[d.cursor + 1]
             dist == haversine_distance_m(d.location, target)
             step == d.speed_mps * dt
         IN  IF step >= dist
             THEN [d EXCEPT !.location = target, !.cursor = d.cursor + 1]
             ELSE [d EXCEPT !.location =
                      IF target > d.location THEN d.location + step ELSE d.location - step]

\* step uses driver.speed_mps, which __init__ sets to
\* settings.DRIVER_SPEED_MPS, the value the `or` of line 34 falls back to.
DriverTick(d, dt) ==
    IF ~HasWaypoint(d)
    THEN IF d.status # "idle" THEN [d EXCEPT !.status = "idle"] ELSE d
    ELSE LET target == d.route[d.cursor + 1]
             dist == haversine_distance_m(d.location, target)
             step == d.speed_mps * dt
         IN  IF step >= dist \/ dist < ArrivalThreshold
             THEN [d EXCEPT !.location = target, !.cursor = d.cursor + 1]
             ELSE [d EXCEPT !.location =
                      IF target > d.location THEN d.location + step ELSE d.location - step]

MutAssignRouteDropsPackages(d, route, pkgs) ==
    [d EXCEPT !.route = route, !.cursor = 0, !.status = "en_route"]

MutAssignRouteKeepsCursor(d, route, pkgs) ==
    [d EXCEPT !.route = route, !.pkgs = pkgs, !.status = "en_route"]

assign_route(d, route, pkgs) ==
    [d EXCEPT !.route = route, !.cursor = 0, !.pkgs = pkgs, !.status = "en_route"]

clear_route(d) ==
    [d EXCEPT !.route = <<>>, !.cursor = 0, !.pkgs = <<>>, !.status = "idle"]

(***************************************************************************)
(* RoutingEngine.get_route: what the body of the answer holds, or, when the *)
(* call raises inside the try block, the haversine estimate at 11.11 m/s.   *)
(* Durations are milliseconds.  raised tells whether the call raises to    *)
(* its caller; none is the set of returned fields whose value is None (a    *)
(* dict.get of a key the body lacks).                                      *)
(***************************************************************************)
FallbackDuration(distance) == IF distance > 0 THEN (distance * 100000) \div 4444 ELSE 0

Absent(resp) ==
    IF resp.kind = "ok" THEN {}
    ELSE IF resp.kind = "no_duration" THEN {"duration_s"}
    ELSE {"duration_s", "distance_m"}

MutGetRouteNoFallback(origin, destination, resp) ==
    [raised |-> resp.kind # "ok", duration_s |-> resp.duration, distance_m |-> resp.distance,
     none |-> {}]

get_route(origin, destination, resp) ==
    IF resp.kind \in RaisingKinds
    THEN LET distance == haversine_distance_m(origin, destination)
         IN  [raised |-> FALSE, duration_s |-> FallbackDuration(distance),
              distance_m |-> distance, none |-> {}]
    ELSE [raised |-> FALSE, duration_s |-> resp.duration, distance_m |-> resp.distance,
          none |-> Absent(resp)]

(***************************************************************************)
(* RoutingEngine.get_duration_matrix.  The table request raises inside the *)
(* try block like the route request does; a served body whose "durations"  *)
(* is missing, null or empty falls through to the fallback as well.        *)
(***************************************************************************)
TableRaisingKinds == {"unreachable", "timeout", "http_error", "not_json"}

ServedDurations(n) == [i \in 1..n |-> [j \in 1..n |-> IF i = j THEN 0 ELSE 900]]

TableResponses(n) ==
    {[kind |-> k, durations |-> <<>>] : k \in TableRaisingKinds \cup {"no_durations"}}
    \cup {[kind |-> "ok", durations |-> ServedDurations(n)]}

HaversineMatrix(points) ==
    [i \in 1..Len(points) |-> [j \in 1..Len(points) |->
        IF i = j THEN 0
        ELSE (haversine_distance_m(points[i], points[j]) * 100000) \div 4444]]

MutMatrixFewerThanThree(points, resp) ==
    IF Len(points) <= 2 THEN [raised |-> FALSE, matrix |-> <<<<0>>>>]
    ELSE [raised |-> FALSE, matrix |-> HaversineMatrix(points)]

get_duration_matrix(points, resp) ==
    IF Len(points) < 2 THEN [raised |-> FALSE, matrix |-> <<<<0>>>>]
    ELSE IF resp.kind = "ok" THEN [raised |-> FALSE, matrix |-> resp.durations]
    ELSE [raised |-> FALSE, matrix |-> HaversineMatrix(points)]

(***************************************************************************)
(* RouteOptimizer.  Nodes are the 0-based indices of the matrix.  solver   *)
(* tells what the OR-Tools library does: it is absent, it finds no         *)
(* solution, or it finds one, whose routes start at routing.Start(v) and   *)
(* end at the end node, both the depot; the solution modelled gives every  *)
(* node to the vehicle solver.to.                                          *)
(***************************************************************************)
Max(a, b) == IF a >= b THEN a ELSE b

RECURSIVE Ascending(_)
Ascending(S) ==
    IF S = {} THEN <<>>
    ELSE LET m == CHOOSE x \in S : \A y \in S : x <= y
         IN  <<m>> \o Ascending(S \ {m})

\* min(unvisited, key=...) returns the first minimal element met; a set of
\* small integers is iterated in ascending order.
Nearest(cur, unvisited, mat) ==
    CHOOSE x \in unvisited : \A y \in unvisited :
        \/ mat[cur + 1][x + 1] < mat[cur + 1][y + 1]
        \/ mat[cur + 1][x + 1] = mat[cur + 1][y + 1] /\ x <= y

\* The while loop of lines 43-51 for one vehicle.
RECURSIVE GreedyRoute(_, _, _, _, _)
GreedyRoute(route, cur, unvisited, mat, limit) ==
    IF unvisited = {} THEN [route |-> route, unvisited |-> unvisited]
    ELSE LET next_node == Nearest(cur, unvisited, mat)
             grown == Append(route, next_node)
             rest == unvisited \ {next_node}
         IN  IF Len(grown) > limit
             THEN [route |-> grown, unvisited |-> rest]
             ELSE GreedyRoute(grown, next_node, rest, mat, limit)

\* The for loop of lines 40-51.
RECURSIVE MutGreedyDepotOnlyWithWork(_, _, _, _, _, _)
MutGreedyDepotOnlyWithWork(v, vehicle_count, routes, unvisited, mat, depot) ==
    IF v > vehicle_count THEN routes
    ELSE LET limit == Max(2, (Len(mat) \div vehicle_count) + 1)
             g == GreedyRoute(IF unvisited = {} THEN <<>> ELSE <<depot>>, depot, unvisited, mat, limit)
         IN  MutGreedyDepotOnlyWithWork(v + 1, vehicle_count, Append(routes, g.route),
                                        g.unvisited, mat, depot)

RECURSIVE GreedyVehicles(_, _, _, _, _, _)
GreedyVehicles(v, vehicle_count, routes, unvisited, mat, depot) ==
    IF v > vehicle_count THEN routes
    ELSE LET limit == Max(2, (Len(mat) \div vehicle_count) + 1)
             g == GreedyRoute(<<depot>>, depot, unvisited, mat, limit)
         IN  GreedyVehicles(v + 1, vehicle_count, Append(routes, g.route),
                            g.unvisited, mat, depot)

_solve_greedy(mat, vehicle_count, depot) ==
    LET n == Len(mat)
        unvisited == (0..(n - 1)) \ {depot}
    IN  [raised |-> FALSE,
         routes |-> GreedyVehicles(1, vehicle_count, <<>>, unvisited, mat, depot)]

_solve_ortools(mat, vehicle_count, depot, solver) ==
    IF solver.kind = "solved"
    THEN LET others == (0..(Len(mat) - 1)) \ {depot}
         IN  [raised |-> FALSE,
              routes |-> [v \in 1..vehicle_count |->
                            <<depot>> \o (IF v = solver.to THEN Ascending(others) ELSE <<>>)
                                     \o <<depot>>]]
    ELSE _solve_greedy(mat, vehicle_count, depot)

solve(duration_matrix, vehicle_count, depot, solver) ==
    LET n == Len(duration_matrix)
    IN  IF n = 0
        THEN [raised |-> FALSE, routes |-> [v \in 1..vehicle_count |-> <<>>]]
        ELSE IF solver.kind # "absent" /\ n <= OrtoolsMaxNodes
             THEN _solve_ortools(duration_matrix, vehicle_count, depot, solver)
             ELSE _solve_greedy(duration_matrix, vehicle_count, depot)

(***************************************************************************)
(* EnvironmentSimulator._tick: every driver of the list is ticked, an      *)
(* exception of one tick is caught.  fault is the index of the driver      *)
(* whose tick raises (0: none); a tick raises in haversine_distance_m or   *)
(* in the construction of the new Location, before it assigns anything.    *)
(***************************************************************************)
RECURSIVE MutSimTickNoCatch(_, _, _)
MutSimTickNoCatch(i, ds, fault) ==
    IF i > Len(ds) THEN [drivers |-> ds, raised |-> FALSE]
    ELSE IF fault = i THEN [drivers |-> ds, raised |-> TRUE]
    ELSE MutSimTickNoCatch(i + 1, [ds EXCEPT ![i] = DriverTick(ds[i], TickSeconds)], fault)

RECURSIVE SimTickLoop(_, _, _)
SimTickLoop(i, ds, fault) ==
    IF i > Len(ds) THEN [drivers |-> ds, raised |-> FALSE]
    ELSE IF fault = i THEN SimTickLoop(i + 1, ds, fault)
    ELSE SimTickLoop(i + 1, [ds EXCEPT ![i] = DriverTick(ds[i], TickSeconds)], fault)

(***************************************************************************)
(* DispatcherAgent._tick                                                   *)
(***************************************************************************)
MutIsIdleNeverRouted(d) == d.status = "idle" /\ d.route = <<>>

MutIsIdleOrMoving(d) == d.status \in {"idle", "en_route"}

MutIsIdleNotDelivering(d) == d.status # "delivering"

IsIdle(d) == d.status = "idle"

IsPending(p) == p.status = "pending"

\* The filtered lists of lines 37-38, as indices in snapshot order.
Indices(s) == [i \in 1..Len(s) |-> i]

IdleDrivers(ds) == LET Keep(i) == IsIdle(ds[i]) IN SelectSeq(Indices(ds), Keep)

PendingPackages(ps) == LET Keep(k) == IsPending(ps[k]) IN SelectSeq(Indices(ps), Keep)

\* The sort key of line 52.
MutKeyDropoff(k, loc, ps) == haversine_distance_m(loc, ps[k].dropoff)

PickupKey(k, loc, ps) == haversine_distance_m(loc, ps[k].pickup)

\* list.sort(key=...) is stable: an element goes after the elements of the
\* same key that preceded it.
RECURSIVE MutInsertUnstable(_, _, _, _)
MutInsertUnstable(x, s, loc, ps) ==
    IF s = <<>> THEN <<x>>
    ELSE IF PickupKey(Head(s), loc, ps) < PickupKey(x, loc, ps)
         THEN <<Head(s)>> \o MutInsertUnstable(x, Tail(s), loc, ps)
         ELSE <<x>> \o s

RECURSIVE InsertByKey(_, _, _, _)
InsertByKey(x, s, loc, ps) ==
    IF s = <<>> THEN <<x>>
    ELSE IF PickupKey(Head(s), loc, ps) <= PickupKey(x, loc, ps)
         THEN <<Head(s)>> \o InsertByKey(x, Tail(s), loc, ps)
         ELSE <<x>> \o s

RECURSIVE SortByPickup(_, _, _)
SortByPickup(s, loc, ps) ==
    IF s = <<>> THEN <<>>
    ELSE InsertByKey(s[Len(s)], SortByPickup(SubSeq(s, 1, Len(s) - 1), loc, ps), loc, ps)

\* A fault injected into a dispatch tick: a call made by the tick raises.
\* "snapshot": the snapshot or a filter raises (n = 0); "lookup": while the
\* tick makes its n-th pairing, the sort key, the pop or a get_route call
\* raises, before assign_route.  (A fault in the log line that ends the
\* n-th pairing leaves the world as a fault in the next lookup does.)
NoFault == [n |-> 0, point |-> None]

DispatchFaults(ds) ==
    {NoFault, [n |-> 0, point |-> "snapshot"]}
    \cup {[n |-> k, point |-> "lookup"] : k \in 1..Len(ds)}

RECURSIVE MutDispatchLoopAssignsBeforeLookup(_, _, _, _, _, _, _)
MutDispatchLoopAssignsBeforeLookup(i, ds, ps, pend, lg, resp, fault) ==
    IF i > Len(ds) THEN [drivers |-> ds, packages |-> ps, log |-> lg, raised |-> FALSE]
    ELSE IF ~IsIdle(ds[i])
    THEN MutDispatchLoopAssignsBeforeLookup(i + 1, ds, ps, pend, lg, resp, fault)
    ELSE IF pend = <<>> THEN [drivers |-> ds, packages |-> ps, log |-> lg, raised |-> FALSE]
    ELSE LET driver_loc == ds[i].location
             sorted == SortByPickup(pend, driver_loc, ps)
             pkg == Head(sorted)
             route_points == <<driver_loc, ps[pkg].pickup, ps[pkg].dropoff>>
             hit == fault.n = Len(lg) + 1
             routed == [ds EXCEPT ![i] = assign_route(ds[i], route_points, <<pkg>>)]
             marked == [ps EXCEPT ![pkg] = mark_assigned(ps[pkg], ds[i].id)]
             paired == Append(lg, [driver |-> i, pkg |-> pkg, loc |-> driver_loc,
                                   before |-> pend])
         IN  IF hit /\ fault.point = "lookup"
             THEN [drivers |-> routed, packages |-> ps, log |-> lg, raised |-> TRUE]
             ELSE MutDispatchLoopAssignsBeforeLookup(i + 1, routed, marked, Tail(sorted),
                                                     paired, resp, fault)

\* Lines 45-61: the loop over simulator.drivers.  pend is the local list
\* `packages`, lg the pairings made so far.
RECURSIVE DispatchLoop(_, _, _, _, _, _, _)
DispatchLoop(i, ds, ps, pend, lg, resp, fault) ==
    IF i > Len(ds) THEN [drivers |-> ds, packages |-> ps, log |-> lg, raised |-> FALSE]
    ELSE IF ~IsIdle(ds[i]) THEN DispatchLoop(i + 1, ds, ps, pend, lg, resp, fault)
    ELSE IF pend = <<>> THEN [drivers |-> ds, packages |-> ps, log |-> lg, raised |-> FALSE]
    ELSE LET driver_loc == ds[i].location
             sorted == SortByPickup(pend, driver_loc, ps)
             pkg == Head(sorted)
             r1 == get_route(driver_loc, ps[pkg].pickup, resp)
             r2 == get_route(ps[pkg].pickup, ps[pkg].dropoff, resp)
             route_points == <<driver_loc, ps[pkg].pickup, ps[pkg].dropoff>>
             hit == fault.n = Len(lg) + 1
             routed == [ds EXCEPT ![i] = assign_route(ds[i], route_points, <<pkg>>)]
             marked == [ps EXCEPT ![pkg] = mark_assigned(ps[pkg], ds[i].id)]
             paired == Append(lg, [driver |-> i, pkg |-> pkg, loc |-> driver_loc,
                                   before |-> pend])
         IN  IF r1.raised \/ r2.raised \/ (hit /\ fault.point = "lookup")
             THEN [drivers |-> ds, packages |-> ps, log |-> lg, raised |-> TRUE]
             ELSE DispatchLoop(i + 1, routed, marked, Tail(sorted), paired, resp, fault)

DispatchTickResult(ds, ps, resp, fault) ==
    LET idle == IdleDrivers(ds)
        pending == PendingPackages(ps)
    IN  IF fault.point = "snapshot"
        THEN [drivers |-> ds, packages |-> ps, log |-> <<>>, raised |-> TRUE]
        ELSE IF idle = <<>> \/ pending = <<>>
        THEN [drivers |-> ds, packages |-> ps, log |-> <<>>, raised |-> FALSE]
        ELSE DispatchLoop(1, ds, ps, pending, <<>>, resp, fault)

\* DispatcherAgent.run_loop, lines 27-33: whether the loop goes on to its
\* sleep and the next tick after a tick that raised or not.  The except
\* clause catches every Exception.
MutRunLoopNoCatch(raised) == ~raised

run_loop_continues(raised) == TRUE

(***************************************************************************)
(* EnvironmentSimulator.snapshot: two new lists that hold the Driver       *)
(* objects of the agents and the Package objects of the simulator, not     *)
(* copies of them.  A reference is the index of the object in the          *)
(* simulator's list; what a reader sees through a snapshot is the present  *)
(* state of the objects referred to.                                       *)
(***************************************************************************)
\* DriverAgent.driver: the Driver entity.  Its route and assigned_packages
\* are never assigned (DriverAgent keeps _route and _packages of its own).
DriverEntity(d) ==
    [id |-> d.id, location |-> d.location, status |-> d.status, speed_mps |-> d.speed_mps,
     route |-> <<>>, assigned_packages |-> <<>>]

snapshot(ds, ps) == [drivers |-> Indices(ds), packages |-> Indices(ps)]

SnapshotView(sn, ds, ps) ==
    [drivers |-> [j \in 1..Len(sn.drivers) |-> DriverEntity(ds[sn.drivers[j]])],
     packages |-> [j \in 1..Len(sn.packages) |-> ps[sn.packages[j]]]]

(***************************************************************************)
(* MapVisualizer.  The object holds last_update and reads the clock; the   *)
(* code uses the two only in `now - self.last_update`, so the state is     *)
(* that difference, since_update, counted in seconds up to VizCap (every   *)
(* larger difference behaves alike).  A new visualizer has last_update =   *)
(* 0, the epoch.  fails: the drawing or m.save raises, after last_update    *)
(* is assigned.                                                            *)
(***************************************************************************)
VizCap == UpdateInterval + 1

NewMapVisualizer == [since_update |-> VizCap, since_regen |-> VizCap]

MutGenerateMapKeepsStamp(since_update, fails) ==
    IF since_update < UpdateInterval
    THEN [since_update |-> since_update, ret |-> FALSE, raised |-> FALSE]
    ELSE [since_update |-> since_update, ret |-> ~fails, raised |-> fails]

generate_map(since_update, fails) ==
    IF since_update < UpdateInterval
    THEN [since_update |-> since_update, ret |-> FALSE, raised |-> FALSE]
    ELSE [since_update |-> 0, ret |-> ~fails, raised |-> fails]

(***************************************************************************)
(* History.                                                                *)
(***************************************************************************)
RunCap == MaxRouteLen + 2

Op(name, who, arg, fault, kind, raised) ==
    [op |-> name, who |-> who, arg |-> arg, fault |-> fault, kind |-> kind, raised |-> raised]

NoRun == [ticks |-> 0, arrivals |-> 0, budget |-> 0]

\* One more motion tick of driver d (as it was before the tick): ticks counts
\* the ticks, arrivals those that reached a waypoint, budget those for which
\* the travel budget speed * dt covered the distance to the waypoint.
InBudget(d, dt) ==
    d.speed_mps * dt >= haversine_distance_m(d.location, d.route[d.cursor + 1])

Bump(r, d) ==
    [ticks |-> Min(r.ticks + 1, RunCap),
     arrivals |-> IF HasWaypoint(d) /\ Arrives(d, TickSeconds)
                  THEN Min(r.arrivals + 1, RunCap) ELSE r.arrivals,
     budget |-> IF HasWaypoint(d) /\ InBudget(d, TickSeconds)
                THEN Min(r.budget + 1, RunCap) ELSE r.budget]

Record(op, lg) ==
    /\ lastOp' = op
    /\ pre' = [drivers |-> drivers, packages |-> packages]
    /\ log' = lg

(***************************************************************************)
(* The world after construction: main() and the tests add drivers with a   *)
(* start location and a speed from the settings, then packages.            *)
(***************************************************************************)
NoOut == [op |-> None]

NoSnap == [taken |-> FALSE]

NoFailure == [last |-> FALSE, prev |-> FALSE]

\* No task holds the event loop and no tick body is under way.
NoSched ==
    [turn |-> None, mi |-> 0, di |-> 0, pend |-> <<>>, lg |-> <<>>, resp |-> None,
     mat |-> <<>>, dat |-> [drivers |-> <<>>, packages |-> <<>>]]

Fleets == UNION {[1..n -> DriverPlaces] : n \in 1..NumDrivers}

RoutesUpTo(n) == UNION {[1..m -> Places] : m \in 0..n}

OrderLists(lo, hi) == UNION {[1..n -> Orders] : n \in lo..hi}

WorldWithFaults(starts, orders, speed, budget) ==
    /\ drivers = [i \in 1..Len(starts) |-> NewDriverAgent(DriverId(i), starts[i], speed)]
    /\ packages = [k \in 1..Len(orders) |-> NewPackage(orders[k][1], orders[k][2])]
    /\ alive = TRUE
    /\ lastOp = Op("init", 0, None, 0, None, FALSE)
    /\ pre = [drivers |-> drivers, packages |-> packages]
    /\ log = <<>>
    /\ runs = [i \in 1..Len(starts) |-> NoRun]
    /\ faults = budget
    /\ viz = NewMapVisualizer
    /\ out = NoOut
    /\ snap = NoSnap
    /\ dhist = NoFailure
    /\ sched = NoSched

\* The world in which no call raises unless the route service fails.
World(starts, orders, speed) == WorldWithFaults(starts, orders, speed, 0)

Init ==
    \E starts \in Fleets, orders \in OrderLists(0, MaxPackages),
       speed \in DriverSpeeds :
        World(starts, orders, speed)

(***************************************************************************)
(* The running system: the simulator loop, the dispatcher loop and the     *)
(* status loop, gathered by main.                                          *)
(***************************************************************************)
MotionTick ==
    /\ alive
    /\ \E fault \in 0..(IF faults > 0 THEN Len(drivers) ELSE 0) :
        LET r == SimTickLoop(1, drivers, fault)
            ticked(i) == i # fault /\ (~r.raised \/ i < fault)
        IN  /\ drivers' = r.drivers
            /\ alive' = ~r.raised
            /\ runs' = [i \in 1..Len(drivers) |->
                          IF ticked(i) THEN Bump(runs[i], drivers[i]) ELSE runs[i]]
            /\ faults' = IF fault = 0 THEN faults ELSE faults - 1
            /\ Record(Op("motion", 0, None, fault, None, r.raised), <<>>)
    /\ dhist' = [dhist EXCEPT !.prev = FALSE]
    /\ UNCHANGED <<packages, viz, out, snap, sched>>

DispatchTick ==
    /\ alive
    /\ \E resp \in TickResponses :
       \E fault \in (IF faults > 0 /\ resp.kind = "ok"
                     THEN DispatchFaults(drivers) ELSE {NoFault}) :
        LET r == DispatchTickResult(drivers, packages, resp, fault)
            injected == r.raised /\ fault # NoFault
        IN  /\ drivers' = r.drivers
            /\ packages' = r.packages
            /\ alive' = run_loop_continues(r.raised)
            /\ runs' = [i \in 1..Len(drivers) |->
                          IF r.drivers[i] # drivers[i] THEN NoRun ELSE runs[i]]
            /\ faults' = IF injected THEN faults - 1 ELSE faults
            /\ dhist' = [last |-> r.raised, prev |-> dhist.last]
            /\ Record(Op("dispatch", IF injected THEN fault.n ELSE 0,
                          IF injected THEN fault.point ELSE None,
                          IF injected THEN 1 ELSE 0, resp.kind, r.raised), r.log)
    /\ UNCHANGED <<viz, out, snap, sched>>

\* One iteration of print_status: the snapshot, generate_map, the log
\* lines, and the sleep.  fault = 1: the iteration raises (the drawing or
\* m.save of generate_map, show_map, a log line).  print_status has no try
\* block, so the exception leaves the coroutine, asyncio.gather hands it to
\* main, main logs and re-raises it and asyncio.run ends the other loops.
ReportTick ==
    /\ alive
    /\ \E fault \in 0..(IF faults > 0 THEN 1 ELSE 0) :
        LET r == generate_map(viz.since_update, fault = 1)
        IN  /\ viz' = [since_update |-> Min(r.since_update + ReportSleep, VizCap),
                       since_regen |-> Min((IF r.ret THEN 0 ELSE viz.since_regen) + ReportSleep,
                                           VizCap)]
            /\ alive' = ~r.raised
            /\ faults' = faults - fault
            /\ Record(Op("report", 0, None, fault, None, r.raised), <<>>)
    /\ dhist' = [dhist EXCEPT !.prev = FALSE]
    /\ UNCHANGED <<drivers, packages, runs, out, snap, sched>>

Next == MotionTick \/ DispatchTick \/ ReportTick

Spec == Init /\ [][Next]_vars

\* The running system in which up to MaxFaults calls made by the ticks
\* raise.
InitFaults ==
    \E starts \in Fleets, orders \in OrderLists(0, MaxPackages - 1),
       speed \in DriverSpeeds :
        WorldWithFaults(starts, orders, speed, MaxFaults)

SpecFaults == InitFaults /\ [][Next]_vars

\* The running system under the scheduling of asyncio.  A loop that is not
\* ended wakes from its asyncio.sleep and runs its next tick: the event
\* loop runs every ready task in turn and no tick body blocks for ever (the
\* route requests have a timeout), so each loop ticks again and again.  A
\* tick that follows a tick of another loop is a step of the model (lastOp
\* changes), and the loops sleep for comparable times, so a run of the
\* program takes infinitely many steps of each loop.
SpecFairMotion == Init /\ [][Next]_vars /\ []<><<MotionTick>>_vars

SpecFair == Init /\ [][Next]_vars /\ []<><<MotionTick>>_vars /\ []<><<DispatchTick>>_vars

(***************************************************************************)
(* The loops as asyncio runs them, statement by statement.  The event loop *)
(* runs one task at a time and takes another one only when the running     *)
(* task awaits something that suspends it.  sched.turn is the task that    *)
(* holds the event loop (None: all of them are suspended), sched.mi and    *)
(* sched.di the driver the motion pass and the dispatch loop come to next  *)
(* (0: the tick body is not under way), sched.pend and sched.lg the locals *)
(* of the dispatch tick, sched.mat and sched.dat the world as the motion   *)
(* pass and the dispatch scan found it.                                    *)
(***************************************************************************)
\* Whether the task is suspended at a point of its loop: "sleep" is the
\* asyncio.sleep between two ticks, "driver" the point between two drivers
\* of a tick body, where the code awaits nothing (dispatcher._tick) or a
\* coroutine that runs to its end without awaiting (DriverAgent.tick).
MutSuspendsBetweenDrivers(point) == TRUE

Suspends(point) == point = "sleep"

Holds(task) == alive /\ (sched.turn = None \/ sched.turn = task)

After(task, point) == IF Suspends(point) THEN None ELSE task

\* One driver of the pass of EnvironmentSimulator._tick.
MotionStep ==
    /\ Holds("sim")
    /\ LET i == IF sched.mi = 0 THEN 1 ELSE sched.mi
           last == i = Len(drivers)
       IN  /\ drivers' = [drivers EXCEPT ![i] = DriverTick(drivers[i], TickSeconds)]
           /\ runs' = [runs EXCEPT ![i] = Bump(runs[i], drivers[i])]
           /\ sched' = [sched EXCEPT
                          !.mi = IF last THEN 0 ELSE i + 1,
                          !.mat = IF sched.mi = 0 THEN drivers ELSE sched.mat,
                          !.turn = After("sim", IF last THEN "sleep" ELSE "driver")]
           /\ Record(Op("motion_step", i, None, 0, None, FALSE), <<>>)
    /\ UNCHANGED <<packages, alive, faults, viz, out, snap, dhist>>

\* One iteration of the loop of DispatcherAgent._tick over driver i.
DispatchDriver(i, ds, ps, pend, lg, resp) ==
    IF ~IsIdle(ds[i])
    THEN [drivers |-> ds, packages |-> ps, pend |-> pend, log |-> lg, done |-> FALSE]
    ELSE IF pend = <<>>
    THEN [drivers |-> ds, packages |-> ps, pend |-> pend, log |-> lg, done |-> TRUE]
    ELSE LET r == DispatchLoop(i, SubSeq(ds, 1, i), ps, pend, lg, resp, NoFault)
         IN  [drivers |-> [j \in 1..Len(ds) |-> IF j <= i THEN r.drivers[j] ELSE ds[j]],
              packages |-> r.packages,
              pend |-> Tail(SortByPickup(pend, ds[i].location, ps)),
              log |-> r.log,
              done |-> r.raised]

\* Lines 36-43: the snapshot and the two filters.
DispatchScan ==
    /\ Holds("disp")
    /\ sched.di = 0
    /\ \E resp \in TickResponses :
        LET idle == IdleDrivers(drivers)
            pending == PendingPackages(packages)
            over == idle = <<>> \/ pending = <<>>
        IN  /\ sched' = [sched EXCEPT
                           !.di = IF over THEN 0 ELSE 1,
                           !.pend = IF over THEN <<>> ELSE pending,
                           !.lg = <<>>,
                           !.resp = resp,
                           !.dat = [drivers |-> drivers, packages |-> packages],
                           !.turn = After("disp", IF over THEN "sleep" ELSE "driver")]
            /\ Record(Op("dispatch_scan", 0, None, 0, resp.kind, FALSE), <<>>)
    /\ UNCHANGED <<drivers, packages, alive, runs, faults, viz, out, snap, dhist>>

DispatchStep ==
    /\ Holds("disp")
    /\ sched.di > 0
    /\ LET i == sched.di
           r == DispatchDriver(i, drivers, packages, sched.pend, sched.lg, sched.resp)
           last == r.done \/ i = Len(drivers)
       IN  /\ drivers' = r.drivers
           /\ packages' = r.packages
           /\ runs' = [j \in 1..Len(drivers) |->
                         IF r.drivers[j] # drivers[j] THEN NoRun ELSE runs[j]]
           /\ sched' = [sched EXCEPT
                          !.di = IF last THEN 0 ELSE i + 1,
                          !.pend = r.pend,
                          !.lg = r.log,
                          !.turn = After("disp", IF last THEN "sleep" ELSE "driver")]
           /\ Record(Op("dispatch_step", i, None, 0, sched.resp.kind, FALSE), r.log)
    /\ UNCHANGED <<alive, faults, viz, out, snap, dhist>>

StatusStep ==
    /\ Holds("status")
    /\ ReportTick

NextSched == MotionStep \/ DispatchScan \/ DispatchStep \/ StatusStep

SpecSched == Init /\ [][NextSched]_vars

(***************************************************************************)
(* A reader that calls snapshot() once and keeps the result while the      *)
(* motion and dispatch loops run (print_status keeps its snapshot over     *)
(* its sleep).  snap.seen is what the reader saw in it when it was taken.  *)
(***************************************************************************)
TakeSnapshot ==
    /\ alive
    /\ ~snap.taken
    /\ snap' = [taken |-> TRUE, ref |-> snapshot(drivers, packages),
                seen |-> SnapshotView(snapshot(drivers, packages), drivers, packages)]
    /\ Record(Op("snapshot", 0, None, 0, None, FALSE), <<>>)
    /\ UNCHANGED <<drivers, packages, alive, runs, faults, viz, out, dhist, sched>>

NextSnapshot == MotionTick \/ DispatchTick \/ TakeSnapshot

SpecSnapshot == Init /\ [][NextSnapshot]_vars

(***************************************************************************)
(* The Package operations called in any order on one package (packages      *)
(* share no state): the first of the list.                                 *)
(***************************************************************************)
InitPackage ==
    \E orders \in OrderLists(1, MaxPackages), speed \in DriverSpeeds :
        World(<<0>>, orders, speed)

MarkAssigned(k, id) ==
    /\ packages' = [packages EXCEPT ![k] = mark_assigned(packages[k], id)]
    /\ Record(Op("mark_assigned", k, id, 0, None, FALSE), <<>>)
    /\ UNCHANGED <<drivers, alive, runs, faults, viz, out, snap, dhist, sched>>

MarkInTransit(k) ==
    /\ packages' = [packages EXCEPT ![k] = mark_in_transit(packages[k])]
    /\ Record(Op("mark_in_transit", k, None, 0, None, FALSE), <<>>)
    /\ UNCHANGED <<drivers, alive, runs, faults, viz, out, snap, dhist, sched>>

MarkDelivered(k) ==
    /\ packages' = [packages EXCEPT ![k] = mark_delivered(packages[k])]
    /\ Record(Op("mark_delivered", k, None, 0, None, FALSE), <<>>)
    /\ UNCHANGED <<drivers, alive, runs, faults, viz, out, snap, dhist, sched>>

NextPackage ==
    \E k \in {1} :
        \/ \E id \in DriverIds : MarkAssigned(k, id)
        \/ MarkInTransit(k)
        \/ MarkDelivered(k)

SpecPackage == InitPackage /\ [][NextPackage]_vars

(***************************************************************************)
(* The DriverAgent operations called in any order on one agent (agents     *)
(* share no state): the first of the fleet.                                *)
(***************************************************************************)
InitDriver ==
    \E start \in DriverPlaces, speed \in HarnessSpeeds :
        World(<<start>>, <<>>, speed)

AssignRoute(i, route) ==
    /\ drivers' = [drivers EXCEPT ![i] = assign_route(drivers[i], route, <<>>)]
    /\ runs' = [runs EXCEPT ![i] = NoRun]
    /\ Record(Op("assign_route", i, None, 0, None, FALSE), <<>>)
    /\ UNCHANGED <<packages, alive, faults, viz, out, snap, dhist, sched>>

ClearRoute(i) ==
    /\ drivers' = [drivers EXCEPT ![i] = clear_route(drivers[i])]
    /\ Record(Op("clear_route", i, None, 0, None, FALSE), <<>>)
    /\ UNCHANGED <<packages, alive, runs, faults, viz, out, snap, dhist, sched>>

Tick(i) ==
    /\ drivers' = [drivers EXCEPT ![i] = DriverTick(drivers[i], TickSeconds)]
    /\ runs' = [runs EXCEPT ![i] = Bump(runs[i], drivers[i])]
    /\ Record(Op("tick", i, None, 0, None, FALSE), <<>>)
    /\ UNCHANGED <<packages, alive, faults, viz, out, snap, dhist, sched>>

NextDriver ==
    \E i \in {1} :
        \/ \E route \in RoutesUpTo(MaxRouteLen) : AssignRoute(i, route)
        \/ ClearRoute(i)
        \/ Tick(i)

SpecDriver == InitDriver /\ [][NextDriver]_vars

(***************************************************************************)
(* The tool functions called on any arguments.  They read and keep no      *)
(* state, so a behaviour is one call; out holds the call and what it       *)
(* returned.                                                               *)
(***************************************************************************)
InitTools ==
    \E start \in DriverPlaces, speed \in DriverSpeeds :
        World(<<start>>, <<>>, speed)

CallGetRoute(origin, destination, resp) ==
    /\ out = NoOut
    /\ out' = [op |-> "get_route", origin |-> origin, destination |-> destination,
               resp |-> resp, res |-> get_route(origin, destination, resp)]
    /\ UNCHANGED <<drivers, packages, alive, lastOp, pre, log, runs, faults, viz, snap,
                   dhist, sched>>

PointLists(n) == UNION {[1..m -> Places] : m \in 0..n}

CallGetDurationMatrix(points, resp) ==
    /\ out = NoOut
    /\ out' = [op |-> "get_duration_matrix", points |-> points, resp |-> resp,
               res |-> get_duration_matrix(points, resp)]
    /\ UNCHANGED <<drivers, packages, alive, lastOp, pre, log, runs, faults, viz, snap,
                   dhist, sched>>

\* The matrices given to solve: the empty one and the fallback matrices of
\* some points.  The depot is an index of the matrix (the default 0 for
\* the empty one), the vehicle count is at least 1.
Matrices == {HaversineMatrix(points) : points \in PointLists(MaxPoints)}

Depots(mat) == 0..Max(Len(mat) - 1, 0)

Solvers(vehicle_count) ==
    {[kind |-> k, to |-> 0] : k \in {"absent", "no_solution"}}
    \cup {[kind |-> "solved", to |-> v] : v \in 1..vehicle_count}

CallSolve(mat, vehicle_count, depot, solver) ==
    /\ out = NoOut
    /\ out' = [op |-> "solve", matrix |-> mat, vehicle_count |-> vehicle_count,
               depot |-> depot, solver |-> solver,
               res |-> solve(mat, vehicle_count, depot, solver)]
    /\ UNCHANGED <<drivers, packages, alive, lastOp, pre, log, runs, faults, viz, snap,
                   dhist, sched>>

NextTools ==
    \/ \E origin \in Places, destination \in Places, resp \in OsrmResponses :
           CallGetRoute(origin, destination, resp)
    \/ \E points \in PointLists(MaxPoints) : \E resp \in TableResponses(Len(points)) :
           CallGetDurationMatrix(points, resp)
    \/ \E mat \in Matrices, vehicle_count \in 1..MaxVehicles :
           \E depot \in Depots(mat), solver \in Solvers(vehicle_count) :
               CallSolve(mat, vehicle_count, depot, solver)

SpecTools == InitTools /\ [][NextTools]_vars

(***************************************************************************)
(* MapVisualizer.generate_map called at any times on a world at rest:      *)
(* Elapse lets one second pass.                                            *)
(***************************************************************************)
InitViz ==
    \E starts \in Fleets, orders \in OrderLists(0, MaxPackages), speed \in DriverSpeeds :
        World(starts, orders, speed)

Elapse ==
    /\ viz' = [since_update |-> Min(viz.since_update + 1, VizCap),
               since_regen |-> Min(viz.since_regen + 1, VizCap)]
    /\ Record(Op("elapse", 0, None, 0, None, FALSE), <<>>)
    /\ UNCHANGED <<drivers, packages, alive, runs, faults, out, snap, dhist, sched>>

GenerateMap(fails) ==
    LET r == generate_map(viz.since_update, fails)
    IN  /\ viz' = [since_update |-> r.since_update,
                   since_regen |-> IF r.ret THEN 0 ELSE viz.since_regen]
        /\ out' = [op |-> "generate_map", since_update |-> viz.since_update,
                   since_regen |-> viz.since_regen, res |-> r]
        /\ Record(Op("generate_map", 0, None, IF fails THEN 1 ELSE 0, None, r.raised), <<>>)
        /\ UNCHANGED <<drivers, packages, alive, runs, faults, snap, dhist, sched>>

NextViz == Elapse \/ \E fails \in BOOLEAN : GenerateMap(fails)

SpecViz == InitViz /\ [][NextViz]_vars

(***************************************************************************)
(* Properties of the dispatch tick.                                        *)
(***************************************************************************)
WasIdle == {i \in 1..Len(pre.drivers) : pre.drivers[i].status = "idle"}

WasPending == {k \in 1..Len(pre.packages) : pre.packages[k].status = "pending"}

NewlyAssigned == {k \in WasPending : packages[k].status = "assigned"}

Range(s) == {s[j] : j \in 1..Len(s)}

\* C1: a dispatch tick (no fault injected) started with I idle drivers and
\* P pending packages moves exactly min(I, P) packages to ASSIGNED, each to a
\* different driver that was idle, and leaves every other package as it was;
\* with I >= 1 and P >= 1 some package has assigned_to set afterwards,
\* whatever the route service answers.
C1_MinIdlePendingAssigned ==
    (lastOp.op = "dispatch" /\ lastOp.fault = 0) =>
        /\ Cardinality(NewlyAssigned) = Min(Cardinality(WasIdle), Cardinality(WasPending))
        /\ \A k \in NewlyAssigned :
               \E i \in WasIdle : packages[k].assigned_to = pre.drivers[i].id
        /\ \A k1, k2 \in NewlyAssigned :
               k1 # k2 => packages[k1].assigned_to # packages[k2].assigned_to
        /\ \A k \in 1..Len(packages) :
               k \notin NewlyAssigned => packages[k] = pre.packages[k]
        /\ (WasIdle # {} /\ WasPending # {}) =>
               \E k \in 1..Len(packages) : packages[k].assigned_to # None

C1_Witness ==
    /\ lastOp.op = "dispatch"
    /\ lastOp.kind = "unreachable"
    /\ Cardinality(WasIdle) = 2
    /\ Cardinality(WasPending) = 3
    /\ Cardinality(NewlyAssigned) = 2

\* The packages still pending when the e-th pairing of the tick is made.
StillPending(e) == WasPending \ {log[j].pkg : j \in 1..(e - 1)}

\* C2: every pairing of a dispatch tick (no fault injected) gives the
\* driver a package whose pickup is at minimum distance from the driver's location among the
\* packages still pending at that moment of the tick; with one idle driver
\* and two pending packages at different pickup distances the nearer one is
\* ASSIGNED to that driver and the farther one is still PENDING.
C2_NearestPickup ==
    (lastOp.op = "dispatch" /\ lastOp.fault = 0) =>
        /\ \A e \in 1..Len(log) :
            /\ Range(log[e].before) = StillPending(e)
            /\ log[e].pkg \in StillPending(e)
            /\ log[e].loc = pre.drivers[log[e].driver].location
            /\ packages[log[e].pkg].assigned_to = pre.drivers[log[e].driver].id
            /\ \A q \in StillPending(e) :
                   haversine_distance_m(log[e].loc, packages[log[e].pkg].pickup)
                       <= haversine_distance_m(log[e].loc, packages[q].pickup)
        /\ \A i \in WasIdle : \A near, far \in WasPending :
               (/\ WasIdle = {i}
                /\ WasPending = {near, far}
                /\ haversine_distance_m(pre.drivers[i].location, packages[near].pickup)
                       < haversine_distance_m(pre.drivers[i].location, packages[far].pickup))
               => /\ packages[near].status = "assigned"
                  /\ packages[near].assigned_to = pre.drivers[i].id
                  /\ packages[far].status = "pending"

\* One idle driver, two pending packages, the nearer one second in the list.
C2_Witness ==
    /\ lastOp.op = "dispatch"
    /\ Cardinality(WasIdle) = 1
    /\ \E i \in WasIdle : \E near, far \in WasPending :
           /\ WasPending = {near, far}
           /\ far < near
           /\ haversine_distance_m(pre.drivers[i].location, packages[near].pickup)
                  < haversine_distance_m(pre.drivers[i].location, packages[far].pickup)
           /\ packages[near].status = "assigned"
           /\ Len(log) = 1

\* The packages still pending that are as near to the driver of the e-th
\* pairing as the package it got.
Tied(e) ==
    {q \in StillPending(e) :
        haversine_distance_m(log[e].loc, packages[q].pickup)
            = haversine_distance_m(log[e].loc, packages[log[e].pkg].pickup)}

Position(s, x) == CHOOSE j \in 1..Len(s) : s[j] = x

\* C3, as claimed: among the remaining pending packages that are equally
\* near to the driver, the one assigned comes first in the simulator's
\* package list, for every driver paired in the tick.
C3_TieByOriginalOrder ==
    lastOp.op = "dispatch" =>
        \A e \in 1..Len(log) : \A q \in Tied(e) : log[e].pkg <= q

\* C3, amended: the tie goes to the package that comes first in the
\* dispatcher's working list as the earlier sorts of the tick left it; for
\* the first driver paired in the tick that is the simulator's list order.
C3_TieByWorkingListOrder ==
    lastOp.op = "dispatch" =>
        /\ \A e \in 1..Len(log) : \A q \in Tied(e) :
               Position(log[e].before, log[e].pkg) <= Position(log[e].before, q)
        /\ Len(log) >= 1 =>
               /\ \A j1, j2 \in 1..Len(log[1].before) :
                      j1 < j2 => log[1].before[j1] < log[1].before[j2]
               /\ \A q \in Tied(1) : log[1].pkg <= q

\* The second driver of the tick gets a tied package that is not the first
\* of the tied ones in the simulator's list.
C3_Witness ==
    /\ lastOp.op = "dispatch"
    /\ Len(log) = 2
    /\ \E q \in Tied(2) : q < log[2].pkg

\* C4: a dispatch tick started with no IDLE driver or no PENDING package
\* changes no driver and no package (so the next tick starts in the same
\* state and changes nothing either).
C4_NoIdleOrNoPendingNoChange ==
    (lastOp.op = "dispatch" /\ (WasIdle = {} \/ WasPending = {})) =>
        /\ drivers = pre.drivers
        /\ packages = pre.packages
        /\ log = <<>>

C4_Witness ==
    /\ lastOp.op = "dispatch"
    /\ WasIdle = {}
    /\ WasPending # {}
    /\ \E i \in 1..Len(drivers) : HasWaypoint(drivers[i])

C4_WitnessNoPending ==
    /\ lastOp.op = "dispatch"
    /\ WasIdle # {}
    /\ WasPending = {}
    /\ Len(packages) >= 1

(***************************************************************************)
(* Properties of the Package operations.                                   *)
(***************************************************************************)
\* The status that follows st in PENDING -> ASSIGNED -> IN_TRANSIT -> DELIVERED.
NextStatus(st) ==
    IF st = "pending" THEN "assigned"
    ELSE IF st = "assigned" THEN "in_transit"
    ELSE IF st = "in_transit" THEN "delivered"
    ELSE "none"

\* C5: a call of mark_assigned, mark_in_transit or mark_delivered leaves the
\* package's status as it was or moves it one step along
\* PENDING -> ASSIGNED -> IN_TRANSIT -> DELIVERED, never backward and never
\* past a state.
C5_StatusStepsAlongChain ==
    \A k \in 1..Len(packages) :
        \/ packages[k].status = pre.packages[k].status
        \/ packages[k].status = NextStatus(pre.packages[k].status)

\* C6: mark_assigned on a package that is not PENDING is rejected: it raises
\* or leaves assigned_to and status as they were.
C6_MarkAssignedOnlyFromPending ==
    (lastOp.op = "mark_assigned" /\ pre.packages[lastOp.who].status # "pending") =>
        \/ lastOp.raised
        \/ /\ packages[lastOp.who].assigned_to = pre.packages[lastOp.who].assigned_to
           /\ packages[lastOp.who].status = pre.packages[lastOp.who].status

\* C7: assigned_to is set exactly when the status is ASSIGNED, IN_TRANSIT or
\* DELIVERED.
C7_AssignedToIffPastPending ==
    \A k \in 1..Len(packages) :
        packages[k].assigned_to # None
            <=> packages[k].status \in {"assigned", "in_transit", "delivered"}

(***************************************************************************)
(* Properties of the driver's motion.                                      *)
(***************************************************************************)
\* C8: between ticks a driver is IDLE exactly when it has no remaining
\* waypoint and EN_ROUTE exactly when it has one.
C8_StatusMatchesRoute ==
    \A i \in 1..Len(drivers) :
        /\ drivers[i].status = "idle" <=> ~HasWaypoint(drivers[i])
        /\ drivers[i].status = "en_route" <=> HasWaypoint(drivers[i])

\* C9: a driver given a route of L >= 1 waypoints, each within the travel
\* budget of one tick, is IDLE at the last waypoint after exactly L motion
\* ticks.
C9_IdleAfterLTicks ==
    \A i \in 1..Len(drivers) :
        LET L == Len(drivers[i].route)
        IN  (L >= 1 /\ runs[i].ticks = L /\ runs[i].budget = L) =>
                /\ drivers[i].status = "idle"
                /\ drivers[i].location = drivers[i].route[L]

(***************************************************************************)
(* Properties of the simulator tick.                                       *)
(***************************************************************************)
\* C10: a fault raised by one driver's tick does not leave the simulator
\* tick: the loop stays alive and every other driver, before and after the
\* faulty one in the list, has been advanced exactly once.
C10_FaultIsolated ==
    (lastOp.op = "motion" /\ lastOp.fault # 0) =>
        /\ alive
        /\ ~lastOp.raised
        /\ \A i \in 1..Len(drivers) :
               i # lastOp.fault => drivers[i] = DriverTick(pre.drivers[i], TickSeconds)

\* C10 happens: the first driver's tick raised and the second driver moved on
\* its route.
C10_Witness ==
    /\ lastOp.op = "motion"
    /\ lastOp.fault = 1
    /\ Len(drivers) >= 2
    /\ HasWaypoint(pre.drivers[1])
    /\ HasWaypoint(pre.drivers[2])
    /\ drivers[2] # pre.drivers[2]
    /\ drivers[1] = pre.drivers[1]

(***************************************************************************)
(* Properties of the loops.                                                *)
(***************************************************************************)
\* C11: an exception raised in a dispatch tick does not stop the dispatcher
\* loop (the process and its loops are alive after the tick), and the
\* dispatch tick that follows a tick that raised works from the state it
\* finds: it raises nothing and pairs min(I, P) of the packages PENDING
\* at its start with drivers IDLE at its start.
C11_DispatchFaultCaughtAndRetried ==
    /\ (lastOp.op = "dispatch" /\ lastOp.raised) => alive
    /\ (lastOp.op = "dispatch" /\ dhist.prev /\ lastOp.fault = 0) =>
          /\ ~lastOp.raised
          /\ Cardinality(NewlyAssigned) = Min(Cardinality(WasIdle), Cardinality(WasPending))
          /\ \A k \in NewlyAssigned : \E i \in WasIdle :
                /\ packages[k].assigned_to = pre.drivers[i].id
                /\ drivers[i].status = "en_route"
                /\ drivers[i].pkgs = <<k>>

\* The tick after a tick that raised assigns a package.
C11_Witness ==
    /\ lastOp.op = "dispatch"
    /\ dhist.prev
    /\ ~lastOp.raised
    /\ alive
    /\ NewlyAssigned # {}

\* C12: a fault inside a tick of the motion loop, the dispatch loop or the
\* status loop is contained in that tick: afterwards the process is alive
\* and the three loops go on.
C12_NoTickFailureIsFatal ==
    (lastOp.op \in {"motion", "dispatch", "report"} /\ lastOp.fault # 0) => alive

\* C13: what a held snapshot shows of the drivers and packages is what it
\* showed when it was taken, whatever motion and dispatch ticks have
\* changed in the world since.
C13_SnapshotKeepsItsStates ==
    snap.taken => SnapshotView(snap.ref, drivers, packages) = snap.seen

\* C14: run statement by statement, the tick bodies do not interleave: no
\* step of the motion pass or of the status loop is taken while a dispatch
\* tick is between its scan and its end, no step of a dispatch tick while a
\* motion pass is under way, at most one dispatch tick is under way; so a
\* dispatch tick ends with the drivers and packages the undivided tick
\* makes of the world it scanned, and a motion pass with the drivers the
\* undivided pass makes of those it started from.
C14_TickBodiesAtomic ==
    /\ lastOp.op \in {"motion_step", "report"} => sched.di = 0
    /\ lastOp.op \in {"dispatch_scan", "dispatch_step", "report"} => sched.mi = 0
    /\ ~(sched.mi > 0 /\ sched.di > 0)
    /\ (lastOp.op = "dispatch_scan" /\ sched.di > 0) =>
          sched.dat = [drivers |-> drivers, packages |-> packages] /\ sched.lg = <<>>
    /\ (lastOp.op \in {"dispatch_scan", "dispatch_step"} /\ sched.di = 0) =>
          LET r == DispatchTickResult(sched.dat.drivers, sched.dat.packages, sched.resp, NoFault)
          IN  drivers = r.drivers /\ packages = r.packages /\ sched.lg = r.log
    /\ (lastOp.op = "motion_step" /\ sched.mi = 0) =>
          drivers = SimTickLoop(1, sched.mat, 0).drivers

\* A dispatch tick that has paired its first driver and has a second one
\* to come to, after a motion pass over two drivers.
C14_Witness ==
    /\ lastOp.op = "dispatch_step"
    /\ sched.di = 2
    /\ Len(sched.lg) = 1
    /\ sched.turn = "disp"
    /\ Len(sched.mat) = 2
    /\ \E i \in 1..Len(sched.mat) : drivers[i].location # sched.mat[i].location

\* C15: the first motion tick that runs after the dispatcher has set a
\* driver EN_ROUTE with a route acts on that route for that driver: it adds
\* 1 to the cursor or moves the driver nearer to the current waypoint.
C15_NextMotionTickActsOnRoute ==
    lastOp.op = "motion" =>
        \A i \in 1..Len(drivers) :
            (/\ pre.drivers[i].status = "en_route"
             /\ pre.drivers[i].route # <<>>
             /\ pre.drivers[i].pkgs # <<>>
             /\ runs[i].ticks = 1)
            => LET d == pre.drivers[i]
                   e == drivers[i]
               IN  /\ d.cursor < Len(d.route)
                   /\ e.route = d.route
                   /\ \/ e.cursor = d.cursor + 1 /\ e.location = d.route[d.cursor + 1]
                      \/ /\ e.cursor = d.cursor
                         /\ haversine_distance_m(e.location, d.route[d.cursor + 1])
                                < haversine_distance_m(d.location, d.route[d.cursor + 1])

\* A driver given its second package is acted on by the next motion tick,
\* while another motion tick has run between the dispatch ticks.
C15_Witness ==
    /\ lastOp.op = "motion"
    /\ \E i \in 1..Len(drivers) :
          /\ pre.drivers[i].status = "en_route"
          /\ pre.drivers[i].pkgs # <<>>
          /\ runs[i].ticks = 1
          /\ drivers[i].cursor = 1
          /\ \E k \in 1..Len(packages) :
                /\ <<k>> # pre.drivers[i].pkgs
                /\ packages[k].assigned_to = drivers[i].id

(***************************************************************************)
(* Properties of the motion step.                                          *)
(***************************************************************************)
\* C20: a tick of a driver with a remaining waypoint is an arrival exactly
\* when step = speed * dt >= dist or dist is under the threshold; an arrival
\* puts the driver on the waypoint and adds 1 to the cursor; otherwise the
\* cursor and the status stay and the driver moves by step toward the
\* waypoint, which is still ahead.
C20_ArrivalOrInterpolation ==
    (lastOp.op = "tick" /\ HasWaypoint(pre.drivers[lastOp.who])) =>
        LET d == pre.drivers[lastOp.who]
            e == drivers[lastOp.who]
            target == d.route[d.cursor + 1]
            dist == haversine_distance_m(d.location, target)
            step == d.speed_mps * TickSeconds
        IN  IF step >= dist \/ dist < ArrivalThreshold
            THEN e.location = target /\ e.cursor = d.cursor + 1
            ELSE /\ e.cursor = d.cursor
                 /\ e.status = d.status
                 /\ haversine_distance_m(d.location, e.location) = step
                 /\ haversine_distance_m(e.location, target) = dist - step
                 /\ dist - step > 0

\* An arrival by the threshold alone: the step is shorter than the distance.
C20_Witness ==
    /\ lastOp.op = "tick"
    /\ HasWaypoint(pre.drivers[lastOp.who])
    /\ LET d == pre.drivers[lastOp.who]
           dist == haversine_distance_m(d.location, d.route[d.cursor + 1])
       IN  /\ d.speed_mps * TickSeconds < dist
           /\ dist < ArrivalThreshold
           /\ drivers[lastOp.who].location = d.route[d.cursor + 1]
           /\ drivers[lastOp.who].cursor = d.cursor + 1

(***************************************************************************)
(* Properties of the tool functions.                                       *)
(***************************************************************************)
\* C16: whenever the route service does not serve the request (network error
\* or timeout, non-2xx status, malformed or incomplete body), get_route
\* raises nothing and returns the fallback estimate: distance_m is the
\* haversine distance, duration_s is distance_m / 11.11 (0 for distance 0),
\* and neither value is None.
C16_FailureGivesFallback ==
    (out.op = "get_route" /\ out.resp.kind # "ok") =>
        /\ ~out.res.raised
        /\ out.res.none = {}
        /\ out.res.distance_m = haversine_distance_m(out.origin, out.destination)
        /\ out.res.duration_s = FallbackDuration(out.res.distance_m)

\* C17: get_duration_matrix returns the 1x1 zero matrix for fewer than 2
\* points; for n >= 2 points, when the table request fails, it returns an
\* n x n matrix with a zero diagonal whose entry [i][j], i # j, is
\* haversine(p_i, p_j) / 11.11: the matrix is symmetric and the entries
\* between distinct locations are positive.
C17_FallbackMatrix ==
    out.op = "get_duration_matrix" =>
        LET n == Len(out.points)
            m == out.res.matrix
        IN  /\ ~out.res.raised
            /\ n < 2 => m = <<<<0>>>>
            /\ (n >= 2 /\ out.resp.kind \in TableRaisingKinds) =>
                  /\ Len(m) = n
                  /\ \A i \in 1..n :
                        /\ Len(m[i]) = n
                        /\ m[i][i] = 0
                        /\ \A j \in (1..n) \ {i} :
                              /\ m[i][j] = (haversine_distance_m(out.points[i], out.points[j])
                                              * 100000) \div 4444
                              /\ m[i][j] = m[j][i]
                              /\ out.points[i] # out.points[j] => m[i][j] > 0

C17_Witness ==
    /\ out.op = "get_duration_matrix"
    /\ Len(out.points) = 3
    /\ out.resp.kind = "unreachable"
    /\ out.points[1] = out.points[2]
    /\ out.points[1] # out.points[3]
    /\ out.res.matrix[1][3] > 0

\* C18 (as claimed): for every matrix, vehicle count and depot index, solve
\* returns vehicle_count sequences and each of them begins with the depot.
C18_EveryRouteStartsAtDepot ==
    out.op = "solve" =>
        /\ ~out.res.raised
        /\ Len(out.res.routes) = out.vehicle_count
        /\ \A v \in 1..Len(out.res.routes) :
              out.res.routes[v] # <<>> /\ Head(out.res.routes[v]) = out.depot

\* C18 (amended): solve returns vehicle_count sequences; for a matrix of at
\* least one node each of them begins with the depot, on the greedy path
\* too and for vehicles left with no node to visit; for the empty matrix
\* each of them is empty.
C18_RoutesStartAtDepotUnlessEmptyMatrix ==
    out.op = "solve" =>
        /\ ~out.res.raised
        /\ Len(out.res.routes) = out.vehicle_count
        /\ \A v \in 1..Len(out.res.routes) :
              IF Len(out.matrix) = 0
              THEN out.res.routes[v] = <<>>
              ELSE out.res.routes[v] # <<>> /\ Head(out.res.routes[v]) = out.depot

C18_Witness ==
    /\ out.op = "solve"
    /\ out.solver.kind = "absent"
    /\ Len(out.matrix) = 2
    /\ out.vehicle_count = 2
    /\ out.depot = 1
    /\ out.res.routes = <<(<<1, 0>>), (<<1>>)>>

(***************************************************************************)
(* Properties of the map visualizer.                                       *)
(***************************************************************************)
\* C19: a generate_map call that regenerates the map comes at least the
\* update interval after the previous call that did; a call made sooner
\* after the last regeneration returns False, regenerates nothing (the
\* visualizer keeps its stamp) and changes no driver and no package.
C19_RegenerationsAnIntervalApart ==
    out.op = "generate_map" =>
        /\ out.res.ret => out.since_regen >= UpdateInterval
        /\ out.since_regen < UpdateInterval =>
              /\ ~out.res.ret
              /\ ~out.res.raised
              /\ out.res.since_update = out.since_update
              /\ drivers = pre.drivers
              /\ packages = pre.packages

\* A regeneration exactly one interval after the previous one.
C19_Witness ==
    /\ out.op = "generate_map"
    /\ out.res.ret
    /\ out.since_regen = UpdateInterval
    /\ viz.since_regen = 0
    /\ packages # <<>>

(***************************************************************************)
(* Properties of the assignment of routes.                                 *)
(***************************************************************************)
\* C21: assign_route with an empty list of waypoints does not put the driver
\* into EN_ROUTE: no driver is EN_ROUTE with a route of zero waypoints.
C21_NoEnRouteWithoutWaypoints ==
    \A i \in 1..Len(drivers) :
        drivers[i].status = "en_route" => Len(drivers[i].route) >= 1

\* C22: when a dispatch tick pairs idle driver d with package p, at the end
\* of the tick d's route is the three waypoints <<d's location at the
\* assignment, p.pickup, p.dropoff>> with the cursor at 0, d is EN_ROUTE,
\* d's recorded packages are exactly <<p>>, and p is ASSIGNED with
\* assigned_to = d's id.
C22_PairingSetsRouteAndPackage ==
    lastOp.op = "dispatch" =>
        \A e \in 1..Len(log) :
            LET d == drivers[log[e].driver]
                p == packages[log[e].pkg]
            IN  /\ pre.drivers[log[e].driver].status = "idle"
                /\ pre.packages[log[e].pkg].status = "pending"
                /\ log[e].loc = pre.drivers[log[e].driver].location
                /\ d.route = <<log[e].loc, p.pickup, p.dropoff>>
                /\ d.cursor = 0
                /\ d.status = "en_route"
                /\ d.location = log[e].loc
                /\ d.pkgs = <<log[e].pkg>>
                /\ p.status = "assigned"
                /\ p.assigned_to = d.id
                /\ p.pickup = pre.packages[log[e].pkg].pickup
                /\ p.dropoff = pre.packages[log[e].pkg].dropoff

\* A tick that pairs a driver that had finished a route before: it stands
\* where that route ended, with the cursor at its end, and another driver is
\* still on its way.
C22_Witness ==
    /\ lastOp.op = "dispatch"
    /\ Len(log) = 1
    /\ pre.drivers[log[1].driver].cursor = 3
    /\ drivers[log[1].driver].route[1] = pre.drivers[log[1].driver].route[3]
    /\ \E j \in 1..Len(drivers) : HasWaypoint(drivers[j]) /\ drivers[j].cursor > 0
    /\ \E e \in 1..Len(log) :
          /\ pre.drivers[log[e].driver].cursor = 3
          /\ pre.drivers[log[e].driver].pkgs # <<log[e].pkg>>
          /\ drivers[log[e].driver].route[1] = pre.drivers[log[e].driver].route[3]

(***************************************************************************)
(* Frame of the ticks.                                                     *)
(***************************************************************************)
PairedDrivers == {log[e].driver : e \in 1..Len(log)}

PairedPackages == {log[e].pkg : e \in 1..Len(log)}

\* C23: a motion tick changes only location, cursor and status of drivers:
\* it leaves every package as it was and every driver's route and recorded
\* packages (and id and speed) unchanged; a dispatch tick changes no
\* driver's location and changes only the drivers and packages it pairs; a
\* reporting tick changes no driver and no package.
C23_TicksKeepTheirFrame ==
    /\ lastOp.op = "motion" =>
          /\ packages = pre.packages
          /\ Len(drivers) = Len(pre.drivers)
          /\ \A i \in 1..Len(drivers) :
                /\ drivers[i].route = pre.drivers[i].route
                /\ drivers[i].pkgs = pre.drivers[i].pkgs
                /\ drivers[i].id = pre.drivers[i].id
                /\ drivers[i].speed_mps = pre.drivers[i].speed_mps
    /\ lastOp.op = "dispatch" =>
          /\ Len(drivers) = Len(pre.drivers)
          /\ Len(packages) = Len(pre.packages)
          /\ \A i \in 1..Len(drivers) :
                /\ drivers[i].location = pre.drivers[i].location
                /\ i \notin PairedDrivers => drivers[i] = pre.drivers[i]
          /\ \A k \in 1..Len(packages) :
                k \notin PairedPackages => packages[k] = pre.packages[k]
    /\ lastOp.op = "report" =>
          /\ drivers = pre.drivers
          /\ packages = pre.packages

\* A motion tick in which one driver ends its route (status back to IDLE)
\* while it still records its package, and another driver moves.
C23_Witness ==
    /\ lastOp.op = "motion"
    /\ \E i, j \in 1..Len(drivers) :
          /\ pre.drivers[i].status = "en_route"
          /\ drivers[i].status = "idle"
          /\ drivers[i].pkgs # <<>>
          /\ packages[drivers[i].pkgs[1]].status = "assigned"
          /\ drivers[j].location # pre.drivers[j].location

(***************************************************************************)
(* Invariants of the running system.                                       *)
(***************************************************************************)
\* C24: in every state of the running system every package is PENDING or
\* ASSIGNED; no package becomes IN_TRANSIT or DELIVERED, also after its
\* driver has passed the pickup and the dropoff and is IDLE again.
C24_PackagesPendingOrAssigned ==
    \A k \in 1..Len(packages) : packages[k].status \in {"pending", "assigned"}

\* A driver back to IDLE at the dropoff of the package it records, which is
\* still ASSIGNED.
C24_Witness ==
    \E i \in 1..Len(drivers) :
        /\ drivers[i].status = "idle"
        /\ drivers[i].cursor = 3
        /\ drivers[i].pkgs # <<>>
        /\ drivers[i].location = packages[drivers[i].pkgs[1]].dropoff
        /\ packages[drivers[i].pkgs[1]].status = "assigned"
        /\ packages[drivers[i].pkgs[1]].assigned_to = drivers[i].id

\* C25: for every driver that is EN_ROUTE, the Driver entity that snapshot()
\* hands to the dispatcher and the reporting loop holds the driver's route
\* (a non-empty route field) and its assigned packages (assigned_packages
\* holds the package recorded by assign_route).
C25_SnapshotDriverCarriesRoute ==
    \A i \in 1..Len(drivers) :
        drivers[i].status = "en_route" =>
            LET seen == SnapshotView(snapshot(drivers, packages), drivers, packages).drivers[i]
            IN  /\ seen.route # <<>>
                /\ \A j \in 1..Len(drivers[i].pkgs) :
                      drivers[i].pkgs[j] \in Range(seen.assigned_packages)

\* C26: for every package that is ASSIGNED, the driver named by its
\* assigned_to exists and holds the package among its recorded packages,
\* also after that driver has ended its route, is IDLE again and has been
\* given another package by a later dispatch tick.
C26_AssignedPackageHeldByItsDriver ==
    \A k \in 1..Len(packages) :
        packages[k].status = "assigned" =>
            \E i \in 1..Len(drivers) :
                /\ drivers[i].id = packages[k].assigned_to
                /\ k \in Range(drivers[i].pkgs)

\* C27: the dispatcher does not overwrite a route in progress: every driver
\* a dispatch tick calls assign_route on was IDLE with no waypoint left (no
\* route, or the cursor at the end of it); a driver that is IDLE has no
\* waypoint left; and a driver with a waypoint still to reach keeps its
\* route and recorded packages through every tick.
C27_NoRouteOverwritten ==
    /\ lastOp.op = "dispatch" =>
          \A e \in 1..Len(log) :
              /\ pre.drivers[log[e].driver].status = "idle"
              /\ ~HasWaypoint(pre.drivers[log[e].driver])
    /\ \A i \in 1..Len(drivers) :
          /\ drivers[i].status = "idle" => ~HasWaypoint(drivers[i])
          /\ HasWaypoint(pre.drivers[i]) =>
                /\ drivers[i].route = pre.drivers[i].route
                /\ drivers[i].pkgs = pre.drivers[i].pkgs

\* A dispatch tick gives a package to a driver that had ended a route and
\* passes over a driver that is between its pickup and its dropoff.
C27_Witness ==
    /\ lastOp.op = "dispatch"
    /\ Len(log) = 1
    /\ pre.drivers[log[1].driver].route # <<>>
    /\ \E j \in 1..Len(drivers) :
          /\ j \notin PairedDrivers
          /\ HasWaypoint(pre.drivers[j])
          /\ pre.drivers[j].cursor = 2
          /\ drivers[j] = pre.drivers[j]

(***************************************************************************)
(* Progress of the running system.                                         *)
(***************************************************************************)
LastWaypoint(d) == d.route[Len(d.route)]

\* C28: with the motion tick scheduled fairly and a positive step per tick,
\* every driver that is EN_ROUTE becomes IDLE again, and whenever a driver
\* goes from EN_ROUTE to IDLE its location is the last waypoint of the
\* route it was assigned; no driver stays EN_ROUTE for ever.
C28_EnRouteLeadsToIdleAtLastWaypoint ==
    /\ \A i \in 1..NumDrivers :
          (i <= Len(drivers) /\ drivers[i].status = "en_route")
              ~> (i <= Len(drivers) /\ drivers[i].status = "idle"
                                    /\ drivers[i].route # <<>>
                                    /\ drivers[i].location = LastWaypoint(drivers[i]))
    /\ [][\A i \in 1..Len(drivers) :
              (drivers[i].status = "en_route" /\ drivers'[i].status = "idle") =>
                  /\ drivers'[i].route = drivers[i].route
                  /\ drivers'[i].route # <<>>
                  /\ drivers'[i].location = LastWaypoint(drivers[i])]_vars

\* A driver set back to IDLE by a motion tick, at the dropoff that ends its
\* route and away from where the route began.
C28_Witness ==
    /\ lastOp.op = "motion"
    /\ \E i \in 1..Len(drivers) :
          /\ pre.drivers[i].status = "en_route"
          /\ drivers[i].status = "idle"
          /\ drivers[i].location = LastWaypoint(drivers[i])
          /\ drivers[i].location # drivers[i].route[1]
          /\ runs[i].arrivals = 3

\* C29: with at least one driver, the motion and dispatch loops scheduled
\* fairly and no fault injected, every package that is PENDING is eventually
\* ASSIGNED: drivers come back to IDLE and the dispatcher pairs them with
\* the packages still pending until none is left.
C29_PendingLeadsToAssigned ==
    \A k \in 1..MaxPackages :
        (k <= Len(packages) /\ Len(drivers) >= 1 /\ packages[k].status = "pending")
            ~> (k <= Len(packages) /\ packages[k].status = "assigned")

\* Three packages and one driver: the last package is assigned after the
\* driver has ended two routes.
C29_Witness ==
    /\ lastOp.op = "dispatch"
    /\ Len(drivers) = 1
    /\ Len(packages) = 3
    /\ \A k \in 1..Len(packages) : packages[k].status = "assigned"
    /\ Len(log) = 1
    /\ pre.drivers[1].cursor = 3

(***************************************************************************)
(* Properties of a failed dispatch tick.                                   *)
(***************************************************************************)
\* The drivers that were IDLE and the packages that were PENDING at the
\* start of the tick and that the tick has not paired.
UnpairedIdle == WasIdle \ PairedDrivers

UnpairedPending == WasPending \ PairedPackages

\* C30: a dispatch tick that fails while it handles a driver, before it
\* reaches assign_route (in the choice of the nearest package or a route
\* lookup), leaves that driver IDLE with its route, cursor and packages
\* unchanged and the package chosen for it PENDING with assigned_to unset,
\* and keeps the pairings made for earlier drivers in the tick; after a
\* failed tick no driver is EN_ROUTE for a package that is still PENDING.
C30_FailedPairingLeavesNoTrace ==
    /\ (lastOp.op = "dispatch" /\ lastOp.raised /\ lastOp.arg = "lookup") =>
          /\ Len(log) = lastOp.who - 1
          /\ UnpairedIdle # {}
          /\ UnpairedPending # {}
          /\ \A i \in PairedDrivers : \A j \in UnpairedIdle : i < j
          /\ \A i \in UnpairedIdle :
                /\ drivers[i] = pre.drivers[i]
                /\ drivers[i].status = "idle"
          /\ \A k \in UnpairedPending :
                /\ packages[k] = pre.packages[k]
                /\ packages[k].status = "pending"
                /\ packages[k].assigned_to = None
          /\ \A e \in 1..Len(log) :
                /\ drivers[log[e].driver].status = "en_route"
                /\ drivers[log[e].driver].pkgs = <<log[e].pkg>>
                /\ drivers[log[e].driver].route
                      = <<log[e].loc, packages[log[e].pkg].pickup, packages[log[e].pkg].dropoff>>
                /\ packages[log[e].pkg].status = "assigned"
                /\ packages[log[e].pkg].assigned_to = drivers[log[e].driver].id
    /\ (lastOp.op = "dispatch" /\ lastOp.raised) =>
          \A i \in 1..Len(drivers) :
              drivers[i].status = "en_route" =>
                  \A j \in 1..Len(drivers[i].pkgs) :
                      packages[drivers[i].pkgs[j]].status # "pending"

\* The tick fails at its second pairing: the first driver keeps its new
\* route and package, the second driver and the second package are as they
\* were.
C30_Witness ==
    /\ lastOp.op = "dispatch"
    /\ lastOp.raised
    /\ lastOp.arg = "lookup"
    /\ lastOp.who = 2
    /\ Len(log) = 1
    /\ drivers[log[1].driver].status = "en_route"
    /\ \E i \in UnpairedIdle : drivers[i].status = "idle"
    /\ \E k \in UnpairedPending : packages[k].status = "pending"
    /\ alive

====
